---- MODULE Spec2Model ----
(***************************************************************************)
(* Model of vision_explanation_methods/DRISE_runner.py: the detector       *)
(* adapter PytorchFasterRCNNWrapper.predict (suppression, confidence       *)
(* filtering, score expansion, record packaging) and the orchestrator      *)
(* get_drise_saliency_map (estimator call, NaN filtering, panel assembly). *)
(*                                                                         *)
(* Numbers.  Confidences, thresholds and the objectness 1.0 are fixed      *)
(* point numbers in thousandths (0.2 is 200, 0.005 is 5, 1.0 is 1000).     *)
(* Expanded class scores are exact rationals <<num, den>>, den > 0.        *)
(* Python indices are 0-based; sequences here are 1-based, so the Python   *)
(* element t[i] is t[i + 1].  Class labels and argmax stay 0-based.        *)
(***************************************************************************)
EXTENDS Integers, Sequences, FiniteSets

VARIABLES
    pc,               \* position in predict / get_drise_saliency_map
    modellocation,    \* argument of get_drise_saliency_map (None or a path)
    numclasses,       \* number of classes (argument, then line 194)
    model_out,        \* what the deterministic detector computes for the batch
    raw_detections,   \* the list of dictionaries predict works on (mutated in place)
    same_dicts,       \* the detector handed back the dictionaries of the previous call
    calls,            \* number of predict calls started
    img,              \* loop position of `for raw_detection in raw_detections`
    detections,       \* list of Detection Records built by predict
    first_detections, \* what the previous predict call returned
    saliency_scores,  \* estimator output, then (line 221) the filtered list
    num_detections,   \* line 223
    axis,             \* what plt.subplots returned as second component
    fig,              \* the figure: one panel per subplot
    i,                \* loop variable of line 232
    saved,            \* the file at savename
    ret,              \* return value of get_drise_saliency_map
    exception         \* exception that ended the run, if any

vars == <<pc, modellocation, numclasses, model_out, raw_detections, same_dicts,
          calls, img, detections, first_detections, saliency_scores,
          num_detections, axis, fig, i, saved, ret, exception>>

predictVars == <<raw_detections, same_dicts, calls, img, detections, first_detections>>
runVars == <<saliency_scores, num_detections, axis, fig, i, saved, ret, exception>>

----------------------------------------------------------------------------
(* Bounds of the explored inputs *)

MaxBoxes == 2
MaxRunBoxes == 3
TensorLen == 2

----------------------------------------------------------------------------
(* Program constants *)

One == 1000
IouThresh == 5
ScoreThresh == 200
PretrainedClasses == 91
BatchSize == 2
img_index == 0

None == "None"
NaN == "NaN"
savename == "savename"

\* a figure is its sequence of panels; NoFigure stands for "no figure object"
NoFigure == <<>>

\* return values: not returned yet, the sentinel (None, None), (fig, savename)
NotReturned == [fig |-> NoFigure, path |-> "unset"]
NoneNone == [fig |-> NoFigure, path |-> None]

\* the file at savename: absent, the placeholder image, or a saved figure
NoFile == [image |-> "absent", panels |-> NoFigure]
NotFoundImage == [image |-> "images/notfound.png", panels |-> NoFigure]
SavedFigure(f) == [image |-> "figure", panels |-> f]

----------------------------------------------------------------------------
(* Tensor helpers *)

Range(s) == {s[p] : p \in 1..Len(s)}

\* t[keep] with keep a tensor of indices (here 1-based positions)
IndexSelect(t, keep) == [p \in 1..Len(keep) |-> t[keep[p]]]

RECURSIVE TrueIndices(_, _)
TrueIndices(mask, p) ==
    IF p > Len(mask) THEN <<>>
    ELSE IF mask[p] THEN <<p>> \o TrueIndices(mask, p + 1)
    ELSE TrueIndices(mask, p + 1)

\* t[keep] with keep a boolean mask
MaskSelect(t, mask) == IndexSelect(t, TrueIndices(mask, 1))

\* exact rationals <<num, den>> with den > 0
RatEq(a, b) == a[1] * b[2] = b[1] * a[2]
RatLess(a, b) == a[1] * b[2] < b[1] * a[2]

----------------------------------------------------------------------------
(* torchvision.ops.nms *)

BoxArea(b) == (b[3] - b[1]) * (b[4] - b[2])

Max2(a, b) == IF a > b THEN a ELSE b
Min2(a, b) == IF a < b THEN a ELSE b

BoxInter(a, b) ==
    LET w == Min2(a[3], b[3]) - Max2(a[1], b[1])
        h == Min2(a[4], b[4]) - Max2(a[2], b[2])
    IN  IF w > 0 /\ h > 0 THEN w * h ELSE 0

\* IoU(a, b) > thresh/1000, without division
IouAbove(a, b, thresh) ==
    BoxInter(a, b) * One > thresh * (BoxArea(a) + BoxArea(b) - BoxInter(a, b))

\* variant: a sort that is not stable, equal scores come out in reverse input order
SortDescendingUnstable(scores) ==
    LET n == Len(scores)
        before(a, b) == scores[a] > scores[b] \/ (scores[a] = scores[b] /\ a > b)
        rank(a) == Cardinality({b \in 1..n : before(b, a)}) + 1
    IN  [r \in 1..n |-> CHOOSE a \in 1..n : rank(a) = r]

\* indices by decreasing score; equal scores keep their input order
SortDescending(scores) ==
    LET n == Len(scores)
        before(a, b) == scores[a] > scores[b] \/ (scores[a] = scores[b] /\ a < b)
        rank(a) == Cardinality({b \in 1..n : before(b, a)}) + 1
    IN  [r \in 1..n |-> CHOOSE a \in 1..n : rank(a) = r]

RECURSIVE NmsScan(_, _, _, _, _)
NmsScan(boxes, order, thresh, p, kept) ==
    IF p > Len(order) THEN kept
    ELSE LET c == order[p]
             suppressed == \E q \in 1..Len(kept) : IouAbove(boxes[kept[q]], boxes[c], thresh)
         IN  NmsScan(boxes, order, thresh, p + 1,
                     IF suppressed THEN kept ELSE Append(kept, c))

\* variant: candidates are scanned in input order instead of by decreasing score
nms_unsorted(boxes, scores, iou_threshold) ==
    NmsScan(boxes, [p \in 1..Len(scores) |-> p], iou_threshold, 1, <<>>)

nms(boxes, scores, iou_threshold) ==
    NmsScan(boxes, SortDescending(scores), iou_threshold, 1, <<>>)

----------------------------------------------------------------------------
(* PytorchFasterRCNNWrapper.predict and its helpers *)

\* variant: the labels are not selected along with the boxes and scores
apply_nms_keeps_labels(orig_prediction, iou_thresh) ==
    LET keep == nms(orig_prediction.boxes, orig_prediction.scores, iou_thresh)
    IN  [boxes  |-> IndexSelect(orig_prediction.boxes, keep),
         scores |-> IndexSelect(orig_prediction.scores, keep),
         labels |-> orig_prediction.labels]

apply_nms(orig_prediction, iou_thresh) ==
    LET keep == nms(orig_prediction.boxes, orig_prediction.scores, iou_thresh)
    IN  [boxes  |-> IndexSelect(orig_prediction.boxes, keep),
         scores |-> IndexSelect(orig_prediction.scores, keep),
         labels |-> IndexSelect(orig_prediction.labels, keep)]

filter_score(orig_prediction, score_thresh) ==
    LET keep == [p \in 1..Len(orig_prediction.scores) |->
                    orig_prediction.scores[p] > score_thresh]
    IN  [boxes  |-> MaskSelect(orig_prediction.boxes, keep),
         scores |-> MaskSelect(orig_prediction.scores, keep),
         labels |-> MaskSelect(orig_prediction.labels, keep)]

\* od_common.expand_class_scores: the predicted class keeps its confidence,
\* (1 - confidence) is spread uniformly over the other classes
expand_class_scores(scores, labels, number_of_classes) ==
    [r \in 1..Len(scores) |->
        [j \in 0..(number_of_classes - 1) |->
            IF j = labels[r] THEN <<scores[r], One>>
            ELSE <<One - scores[r], One * (number_of_classes - 1)>>]]

\* variant: one objectness score per class instead of one per box
DetectionRecord_objectness_per_class(raw_detection, number_of_classes) ==
    [bounding_boxes    |-> raw_detection.boxes,
     class_scores      |-> expand_class_scores(raw_detection.scores,
                                               raw_detection.labels,
                                               number_of_classes),
     objectness_scores |-> [p \in 1..number_of_classes |-> One]]

DetectionRecord(raw_detection, number_of_classes) ==
    [bounding_boxes    |-> raw_detection.boxes,
     class_scores      |-> expand_class_scores(raw_detection.scores,
                                               raw_detection.labels,
                                               number_of_classes),
     objectness_scores |-> [p \in 1..Len(raw_detection.boxes) |-> One]]

\* torch.argmax over one class-score row: the first maximal index
argmax(row, number_of_classes) ==
    CHOOSE k \in 0..(number_of_classes - 1) :
        /\ \A j \in 0..(number_of_classes - 1) : ~RatLess(row[k], row[j])
        /\ \A j \in 0..(k - 1) : RatLess(row[j], row[k])

----------------------------------------------------------------------------
(* Detector outputs explored *)

BoxA == <<0, 0, 10, 10>>
BoxB == <<0, 0, 10, 9>>
BoxD == <<9, 9, 30, 30>>
BoxF == <<40, 40, 50, 50>>

Boxes == {BoxA, BoxB, BoxD}
Scores == {100, 200, 300, 900}
ClassCounts == {2, 5}
LabelsOf(C) == {0, C - 1}

Det(b, s, l) == [box |-> b, score |-> s, label |-> l]
RawDets(C) == {Det(b, s, l) : b \in Boxes, s \in Scores, l \in LabelsOf(C)}

\* a list of pairwise different detections
Distinct(s) == \A p, q \in 1..Len(s) : p # q => s[p] # s[q]

RawDict(s) ==
    [boxes  |-> [p \in 1..Len(s) |-> s[p].box],
     scores |-> [p \in 1..Len(s) |-> s[p].score],
     labels |-> [p \in 1..Len(s) |-> s[p].label]]

\* a batch of one image and either a copy of it or an image with one
\* confident detection
PredictBatches(s) ==
    {<<RawDict(s), RawDict(s)>>, <<RawDict(s), RawDict(<<Det(BoxF, 900, 0)>>)>>}

----------------------------------------------------------------------------
(* predict, step by step *)

\* line 50: raw_detections = self._model(x); line 88: detections = []
ModelCall ==
    /\ pc = "predict"
    /\ \E reuse \in {FALSE} \union (IF calls > 0 THEN {TRUE} ELSE {}) :
          /\ raw_detections' = IF reuse THEN raw_detections ELSE model_out
          /\ same_dicts' = reuse
    /\ calls' = calls + 1
    /\ detections' = <<>>
    /\ img' = 1
    /\ pc' = "nms"
    /\ UNCHANGED <<modellocation, numclasses, model_out, first_detections>>
    /\ UNCHANGED runVars

\* line 90
ApplyNms ==
    /\ pc = "nms"
    /\ img <= Len(raw_detections)
    /\ raw_detections' =
          [raw_detections EXCEPT ![img] = apply_nms(raw_detections[img], IouThresh)]
    /\ pc' = "filter"
    /\ UNCHANGED <<modellocation, numclasses, model_out, same_dicts, calls, img,
                   detections, first_detections>>
    /\ UNCHANGED runVars

\* line 96
FilterScore ==
    /\ pc = "filter"
    /\ raw_detections' =
          [raw_detections EXCEPT ![img] = filter_score(raw_detections[img], ScoreThresh)]
    /\ pc' = "expand"
    /\ UNCHANGED <<modellocation, numclasses, model_out, same_dicts, calls, img,
                   detections, first_detections>>
    /\ UNCHANGED runVars

\* lines 97-107
AppendRecord ==
    /\ pc = "expand"
    /\ detections' = Append(detections, DetectionRecord(raw_detections[img], numclasses))
    /\ img' = img + 1
    /\ pc' = "nms"
    /\ UNCHANGED <<modellocation, numclasses, model_out, raw_detections, same_dicts,
                   calls, first_detections>>
    /\ UNCHANGED runVars

\* line 109
PredictReturn ==
    /\ pc = "nms"
    /\ img > Len(raw_detections)
    /\ pc' = "returned"
    /\ UNCHANGED <<modellocation, numclasses, model_out>>
    /\ UNCHANGED predictVars
    /\ UNCHANGED runVars

\* a caller of the adapter calls predict a second time on the same input
CallPredictAgain ==
    /\ pc = "returned"
    /\ calls < 2
    /\ first_detections' = detections
    /\ pc' = "predict"
    /\ UNCHANGED <<modellocation, numclasses, model_out, raw_detections, same_dicts,
                   calls, img, detections>>
    /\ UNCHANGED runVars

InitRun ==
    /\ saliency_scores = <<>>
    /\ num_detections = 0
    /\ axis = None
    /\ fig = NoFigure
    /\ i = 0
    /\ saved = NoFile
    /\ ret = NotReturned
    /\ exception = None

InitPredict ==
    /\ pc = "predict"
    /\ modellocation = None
    /\ numclasses \in ClassCounts
    /\ \E n \in 0..MaxBoxes :
          \E s \in [1..n -> RawDets(numclasses)] :
              Distinct(s) /\ model_out \in PredictBatches(s)
    /\ raw_detections = <<>>
    /\ same_dicts = FALSE
    /\ calls = 0
    /\ img = 1
    /\ detections = <<>>
    /\ first_detections = <<>>
    /\ InitRun

NextPredict ==
    \/ ModelCall
    \/ ApplyNms
    \/ FilterScore
    \/ AppendRecord
    \/ PredictReturn
    \/ CallPredictAgain

SpecPredict == InitPredict /\ [][NextPredict]_vars

----------------------------------------------------------------------------
(* get_drise_saliency_map *)

PixelValues == {NaN, "0.5"}
Tensors == [1..TensorLen -> PixelValues]

\* torch.isnan(t).any()
isnan_any(t) == \E p \in 1..Len(t) : t[p] = NaN

\* the detector outputs the runner is explored on: five candidate detections,
\* BoxA/BoxB overlapping, BoxD and BoxF apart, one below the confidence filter
RunPool(C) ==
    {Det(BoxA, 900, 0), Det(BoxB, 300, C - 1), Det(BoxD, 900, C - 1),
     Det(BoxF, 300, 0), Det(BoxF, 100, C - 1)}

\* line 209/212: the image is repeated twice, the detector is deterministic
RunBatch(s) == [m \in 1..BatchSize |-> RawDict(s)]

\* lines 190-199: the class count the wrapper is built with
EffectiveClasses(location, classes) ==
    IF location = None THEN PretrainedClasses ELSE classes

\* one Raw Saliency Result per target detection, in the order of the record's
\* boxes; `target` is the position (0-based) of the detection it explains
ResultList(n, f) == [p \in 1..n |-> [detection |-> f[p], target |-> p - 1]]

DRISE_saliency(target_detections) ==
    LET n0 == Len(target_detections[img_index + 1].bounding_boxes)
    IN  {[m \in 1..Len(target_detections) |->
            IF m = img_index + 1 THEN ResultList(n0, f)
            ELSE ResultList(Len(target_detections[m].bounding_boxes),
                            [p \in 1..Len(target_detections[m].bounding_boxes) |-> t])] :
         f \in [1..n0 -> Tensors], t \in Tensors}

\* lines 186-207
LoadModel ==
    /\ pc = "start"
    /\ numclasses' = EffectiveClasses(modellocation, numclasses)
    /\ pc' = "predict"
    /\ UNCHANGED <<modellocation, model_out>>
    /\ UNCHANGED predictVars
    /\ UNCHANGED runVars

\* lines 210-218
DriseSaliency ==
    /\ pc = "returned"
    /\ saliency_scores' \in DRISE_saliency(detections)
    /\ pc' = "nanfilter"
    /\ UNCHANGED <<modellocation, numclasses, model_out>>
    /\ UNCHANGED predictVars
    /\ UNCHANGED <<num_detections, axis, fig, i, saved, ret, exception>>

\* variant: .all() instead of .any(), only all-NaN tensors are excluded
ExcludeNaN_all(scores) ==
    LET keep == [p \in 1..Len(scores) |->
                    (\A q \in 1..Len(scores[p].detection) : scores[p].detection[q] = NaN) = FALSE]
    IN  MaskSelect(scores, keep)

\* lines 221-222: the list comprehension
ExcludeNaN(scores) ==
    LET keep == [p \in 1..Len(scores) |-> isnan_any(scores[p].detection) = FALSE]
    IN  MaskSelect(scores, keep)

\* lines 220-223
NanFilter ==
    /\ pc = "nanfilter"
    /\ saliency_scores' = ExcludeNaN(saliency_scores[img_index + 1])
    /\ num_detections' = Len(saliency_scores')
    /\ pc' = "check"
    /\ UNCHANGED <<modellocation, numclasses, model_out>>
    /\ UNCHANGED predictVars
    /\ UNCHANGED <<axis, fig, i, saved, ret, exception>>

\* variant: the sentinel is returned without writing the placeholder image
NotFound_without_save ==
    /\ pc = "check"
    /\ num_detections = 0
    /\ ret' = NoneNone
    /\ pc' = "done"
    /\ UNCHANGED <<modellocation, numclasses, model_out>>
    /\ UNCHANGED predictVars
    /\ UNCHANGED <<saliency_scores, num_detections, axis, fig, i, saved, exception>>

\* lines 225-228
NotFound ==
    /\ pc = "check"
    /\ num_detections = 0
    /\ saved' = NotFoundImage
    /\ ret' = NoneNone
    /\ pc' = "done"
    /\ UNCHANGED <<modellocation, numclasses, model_out>>
    /\ UNCHANGED predictVars
    /\ UNCHANGED <<saliency_scores, num_detections, axis, fig, i, exception>>

\* plt.subplots(1, n): one Axes object for n = 1, an array of n Axes otherwise
subplots_axis(n) == IF n = 1 THEN "Axes" ELSE "ndarray"

EmptyPanel == [heat_maps |-> <<>>, patches |-> <<>>]

\* line 230
Subplots ==
    /\ pc = "check"
    /\ num_detections # 0
    /\ fig' = [p \in 1..num_detections |-> EmptyPanel]
    /\ axis' = subplots_axis(num_detections)
    /\ i' = 0
    /\ pc' = "loop"
    /\ UNCHANGED <<modellocation, numclasses, model_out>>
    /\ UNCHANGED predictVars
    /\ UNCHANGED <<saliency_scores, num_detections, saved, ret, exception>>

\* lines 232-244: axis[i] is evaluated for the plt_fig_axis argument; an Axes
\* object is not subscriptable
VisualizeAttr ==
    /\ pc = "loop"
    /\ i < num_detections
    /\ IF axis = "Axes"
       THEN /\ exception' = "TypeError"
            /\ pc' = "raised"
            /\ fig' = fig
       ELSE /\ fig' = [fig EXCEPT ![i + 1].heat_maps = Append(@, saliency_scores[i + 1])]
            /\ pc' = "bbox"
            /\ exception' = exception
    /\ UNCHANGED <<modellocation, numclasses, model_out>>
    /\ UNCHANGED predictVars
    /\ UNCHANGED <<saliency_scores, num_detections, axis, i, saved, ret>>

\* the panel plot_img_bbox draws on in lines 248-254
bbox_panel(n, ax, k) ==
    IF n > 1 THEN k + 1
    ELSE IF ax # "list" THEN 1
    ELSE k + 1

\* lines 246-255
PlotBox ==
    /\ pc = "bbox"
    /\ LET box == detections[img_index + 1].bounding_boxes[i + 1]
           label == argmax(detections[img_index + 1].class_scores[i + 1], numclasses)
           panel == bbox_panel(num_detections, axis, i)
       IN  fig' = [fig EXCEPT ![panel].patches = Append(@, [box |-> box, label |-> label])]
    /\ saved' = SavedFigure(fig')
    /\ i' = i + 1
    /\ pc' = "loop"
    /\ UNCHANGED <<modellocation, numclasses, model_out>>
    /\ UNCHANGED predictVars
    /\ UNCHANGED <<saliency_scores, num_detections, axis, ret, exception>>

\* line 256
ReturnFigure ==
    /\ pc = "loop"
    /\ i >= num_detections
    /\ ret' = [fig |-> fig, path |-> savename]
    /\ pc' = "done"
    /\ UNCHANGED <<modellocation, numclasses, model_out>>
    /\ UNCHANGED predictVars
    /\ UNCHANGED <<saliency_scores, num_detections, axis, fig, i, saved, exception>>

Init ==
    /\ pc = "start"
    /\ modellocation \in {None, "model.pt"}
    /\ numclasses \in ClassCounts
    /\ \E n \in 0..MaxRunBoxes :
          \E s \in [1..n -> RunPool(EffectiveClasses(modellocation, numclasses))] :
              Distinct(s) /\ model_out = RunBatch(s)
    /\ raw_detections = <<>>
    /\ same_dicts = FALSE
    /\ calls = 0
    /\ img = 1
    /\ detections = <<>>
    /\ first_detections = <<>>
    /\ InitRun

Next ==
    \/ LoadModel
    \/ ModelCall
    \/ ApplyNms
    \/ FilterScore
    \/ AppendRecord
    \/ PredictReturn
    \/ DriseSaliency
    \/ NanFilter
    \/ NotFound
    \/ Subplots
    \/ VisualizeAttr
    \/ PlotBox
    \/ ReturnFigure

Spec == Init /\ [][Next]_vars

----------------------------------------------------------------------------
(* Properties *)

Triple(d, p) == <<d.boxes[p], d.scores[p], d.labels[p]>>
Aligned(d) == Len(d.boxes) = Len(d.scores) /\ Len(d.scores) = Len(d.labels)
Triples(d) == {Triple(d, p) : p \in 1..Len(d.scores)}
HasNaN(t) == NaN \in Range(t)

\* C1: every panel shows the box and the label of the detection its saliency
\* map was computed for: if the map on panel p explains detection j, the box
\* drawn is detections[0].bounding_boxes[j] and the label is the argmax of
\* detections[0].class_scores[j].
C1_PanelPairsSameDetection ==
    \A p \in 1..Len(fig) :
        \A q \in 1..Len(fig[p].patches) :
            /\ Len(fig[p].heat_maps) = 1
            /\ LET j == fig[p].heat_maps[1].target
                   rec == detections[img_index + 1]
               IN  /\ fig[p].patches[q].box = rec.bounding_boxes[j + 1]
                   /\ fig[p].patches[q].label = argmax(rec.class_scores[j + 1], numclasses)

\* C2: the validity filter keeps exactly the image-0 results without any NaN,
\* in their original relative order: nothing with a NaN is kept, nothing
\* NaN-free is dropped.
C2_NanExclusion ==
    [][pc = "nanfilter" =>
        LET orig == saliency_scores[img_index + 1]
            kept == saliency_scores'
        IN  /\ \A p \in 1..Len(kept) :
                  /\ ~HasNaN(kept[p].detection)
                  /\ kept[p].target + 1 \in 1..Len(orig)
                  /\ orig[kept[p].target + 1] = kept[p]
            /\ \A p, q \in 1..Len(kept) : p < q => kept[p].target < kept[q].target
            /\ \A j \in 1..Len(orig) :
                  ~HasNaN(orig[j].detection) => \E p \in 1..Len(kept) : kept[p] = orig[j]
            /\ num_detections' = Len(kept)]_vars

\* a result with a smaller index was dropped and a later one was kept
C2_Witness ==
    /\ pc = "check"
    /\ \E p \in 1..Len(saliency_scores) : saliency_scores[p].target # p - 1

\* C3: with zero valid saliency results the run writes the placeholder image,
\* returns the sentinel (None, None), creates and saves no figure and raises
\* nothing.
C3_TerminalCase ==
    (pc \in {"check", "loop", "bbox", "done", "raised"} /\ num_detections = 0) =>
        /\ pc \in {"check", "done"}
        /\ exception = None
        /\ fig = NoFigure
        /\ saved \in {NoFile, NotFoundImage}
        /\ pc = "done" => (saved = NotFoundImage /\ ret = NoneNone)

\* detections existed, every saliency result had a NaN, the run ended
C3_Witness ==
    /\ pc = "done"
    /\ ret = NoneNone
    /\ Len(detections[img_index + 1].bounding_boxes) > 0

RECURSIVE NumeratorSum(_, _, _)
NumeratorSum(row, j, D) ==
    IF j < 0 THEN 0 ELSE row[j][1] * (D \div row[j][2]) + NumeratorSum(row, j - 1, D)

\* the row sums to 1: all denominators divide D, the numerators over D add up to D
SumsToOne(row, C) ==
    LET D == One * (C - 1)
    IN  /\ \A j \in 0..(C - 1) : D % row[j][2] = 0
        /\ NumeratorSum(row, C - 1, D) = D

\* C4: every box of a Detection Record comes from a detector output with
\* confidence c and class k such that its row has row[k] = c,
\* row[j] = (1 - c)/(C - 1) for j # k, and sum(row) = 1.
C4_ScoreExpansion ==
    \A m \in 1..Len(detections) :
        LET rec == detections[m]
        IN  /\ Len(rec.class_scores) = Len(rec.bounding_boxes)
            /\ \A r \in 1..Len(rec.bounding_boxes) :
                  LET row == rec.class_scores[r]
                  IN  /\ DOMAIN row = 0..(numclasses - 1)
                      /\ SumsToOne(row, numclasses)
                      /\ \E d \in 1..Len(model_out[m].boxes) :
                            LET c == model_out[m].scores[d]
                                k == model_out[m].labels[d]
                            IN  /\ model_out[m].boxes[d] = rec.bounding_boxes[r]
                                /\ RatEq(row[k], <<c, One>>)
                                /\ \A j \in 0..(numclasses - 1) :
                                      j # k => RatEq(row[j], <<One - c, One * (numclasses - 1)>>)

\* confidence 0.9 for the last of 5 classes: 0.9 there, 0.025 elsewhere
C4_Witness ==
    /\ pc = "returned"
    /\ numclasses = 5
    /\ \E m \in 1..Len(detections) :
          \E r \in 1..Len(detections[m].class_scores) :
              LET row == detections[m].class_scores[r]
              IN  /\ RatEq(row[4], <<9, 10>>)
                  /\ \A j \in 0..3 : RatEq(row[j], <<25, 1000>>)

\* C5: the label drawn on a panel, the argmax of the expanded row of the
\* detection whose box is drawn there, is the class the detector predicted
\* for that box.
C5_LabelIsPredictedClass ==
    \A p \in 1..Len(fig) :
        \A q \in 1..Len(fig[p].patches) :
            fig[p].patches[q].label = raw_detections[img_index + 1].labels[p]

\* C6: confidence filtering keeps exactly the boxes with confidence >= 0.2
\* (0.2 included), boxes, scores and labels staying aligned.
C6_ConfidenceFilter ==
    [][pc = "filter" =>
        LET pre == raw_detections[img]
            post == raw_detections'[img]
        IN  /\ Aligned(post)
            /\ \A p \in 1..Len(pre.scores) :
                  pre.scores[p] >= ScoreThresh => Triple(pre, p) \in Triples(post)
            /\ \A q \in 1..Len(post.scores) :
                  post.scores[q] >= ScoreThresh /\ Triple(post, q) \in Triples(pre)]_vars

Iou90(a, b) == BoxInter(a, b) * 10 = 9 * (BoxArea(a) + BoxArea(b) - BoxInter(a, b))
NoOverlap(boxes) ==
    \A p, q \in 1..Len(boxes) : p # q => ~IouAbove(boxes[p], boxes[q], IouThresh)
TwoBoxScenario(pre, post) ==
    (Len(pre.scores) = 2 /\ Iou90(pre.boxes[1], pre.boxes[2])) =>
        /\ Len(post.scores) = 1
        /\ \A p \in 1..2 : post.scores[1] >= pre.scores[p]

\* C7 as stated: the highest-confidence box always survives suppression, a
\* box is removed iff a surviving box with higher confidence overlaps it with
\* IoU above 0.005, no two boxes of a record overlap above 0.005, and of two
\* boxes with IoU 0.9 only the higher-confidence one remains.
C7_Suppression ==
    [][pc = "nms" /\ pc' = "filter" =>
        LET pre == raw_detections[img]
            post == raw_detections'[img]
            Survives(p) == Triple(pre, p) \in Triples(post)
        IN  /\ Aligned(post)
            /\ Triples(post) \subseteq Triples(pre)
            /\ \A p \in 1..Len(pre.scores) :
                  (\A o \in 1..Len(pre.scores) : pre.scores[o] <= pre.scores[p]) => Survives(p)
            /\ \A p \in 1..Len(pre.scores) :
                  ~Survives(p) <=>
                      \E s \in 1..Len(pre.scores) :
                          /\ Survives(s)
                          /\ pre.scores[s] > pre.scores[p]
                          /\ IouAbove(pre.boxes[s], pre.boxes[p], IouThresh)
            /\ NoOverlap(post.boxes)
            /\ TwoBoxScenario(pre, post)]_vars

\* C7 as amended: some box of highest confidence survives, a box is removed
\* iff another surviving box of higher or equal confidence overlaps it with
\* IoU above 0.005, no two boxes of a record overlap above 0.005, and of two
\* boxes with IoU 0.9 exactly one remains, of no lower confidence than the other.
C7_SuppressionWithTies ==
    [][(pc = "nms" /\ pc' = "filter" =>
        LET pre == raw_detections[img]
            post == raw_detections'[img]
            Survives(p) == Triple(pre, p) \in Triples(post)
        IN  /\ Aligned(post)
            /\ Triples(post) \subseteq Triples(pre)
            /\ Len(pre.scores) > 0 =>
                  \E p \in 1..Len(pre.scores) :
                      /\ \A o \in 1..Len(pre.scores) : pre.scores[o] <= pre.scores[p]
                      /\ Survives(p)
            /\ \A p \in 1..Len(pre.scores) :
                  ~Survives(p) <=>
                      \E s \in 1..Len(pre.scores) :
                          /\ s # p
                          /\ Survives(s)
                          /\ pre.scores[s] >= pre.scores[p]
                          /\ IouAbove(pre.boxes[s], pre.boxes[p], IouThresh)
            /\ NoOverlap(post.boxes)
            /\ TwoBoxScenario(pre, post))
       /\ \A m \in 1..Len(detections') : NoOverlap(detections'[m].bounding_boxes)]_vars

\* two boxes with IoU 0.9 went in, one came out
C7_Witness ==
    /\ pc = "filter"
    /\ calls = 1
    /\ Len(model_out[img].boxes) = 2
    /\ Iou90(model_out[img].boxes[1], model_out[img].boxes[2])
    /\ Len(raw_detections[img].boxes) = 1

\* C8: every record has as many boxes as class-score rows as objectness
\* scores, namely the boxes left after suppression and filtering (possibly
\* none), and predict returns one record per image, in batch order.
C8_RecordLengths ==
    /\ \A m \in 1..Len(detections) :
          LET rec == detections[m]
          IN  /\ Len(rec.bounding_boxes) = Len(rec.class_scores)
              /\ Len(rec.class_scores) = Len(rec.objectness_scores)
              /\ rec.bounding_boxes = raw_detections[m].boxes
              /\ Range(rec.bounding_boxes) \subseteq Range(model_out[m].boxes)
    /\ pc = "returned" => Len(detections) = Len(model_out)

\* a batch whose first image keeps a detection and whose second image lost all
C8_Witness ==
    /\ pc = "returned"
    /\ Len(detections) = BatchSize
    /\ \E m \in 1..Len(detections) :
          Len(model_out[m].boxes) > 0 /\ Len(detections[m].bounding_boxes) = 0
    /\ \E m \in 1..Len(detections) : Len(detections[m].bounding_boxes) > 0

\* C9: a second predict on the same raw detections returns the same records,
\* also when it works on the dictionaries the first call overwrote.
C9_Idempotence ==
    (pc = "returned" /\ calls = 2) => detections = first_detections

\* the second call got the dictionaries the first call had overwritten, from
\* which the first call had removed a box and kept one
C9_Witness ==
    /\ pc = "returned"
    /\ calls = 2
    /\ same_dicts
    /\ \E m \in 1..Len(detections) :
          /\ Len(first_detections[m].bounding_boxes) >= 1
          /\ Len(model_out[m].boxes) > Len(first_detections[m].bounding_boxes)

\* C10: with n >= 1 valid detections the run ends normally with a figure of
\* n panels, one saliency overlay and one box overlay each, saved at
\* savename, and returns (figure, savename).
C10_FigureForEveryCount ==
    (pc \in {"done", "raised"} /\ num_detections >= 1) =>
        /\ pc = "done"
        /\ exception = None
        /\ Len(fig) = num_detections
        /\ \A p \in 1..Len(fig) :
              Len(fig[p].heat_maps) = 1 /\ Len(fig[p].patches) = 1
        /\ saved = SavedFigure(fig)
        /\ ret = [fig |-> fig, path |-> savename]

====
